---- MODULE Spec2Model ----
(***************************************************************************)
(* Transport control of modplayer_regroover.c: the command queue between   *)
(* the control loop (main) and the SDL render callback (audio_callback),   *)
(* and the song / pattern-loop / loop-till-row logic of the control loop.  *)
(* The two threads interleave statement by statement: the program has no   *)
(* lock, so every shared read and write is a step of its own thread.       *)
(***************************************************************************)
EXTENDS Integers, Sequences, FiniteSets, TLC

\* ---------------------------------------------------------------- bounds
\* Key presses the control loop reads in one run: of the queue experiment,
\* of the transport, the pattern-loop and the loop-till-row experiment.
QueueKeys == 8
TransportKeys == 3
PatternKeys == 3
OrderKeys == 3
LoopTillKeys == 2
\* ... of the song-mode, the mute and the drain experiment.
SongKeys == 3
MuteKeys == 3
MuteJumpKeys == 3
\* ... of the experiment on the order of enqueue_command's stores.
StoreOrderKeys == 2
DrainKeys == 4

\* ------------------------------------------------------- program constants
MAX_COMMANDS == 8
PLAYBACK_NONE == 0
PLAYBACK_QUEUE_ORDER == 1
PLAYBACK_LOOP_TILL_ROW == 2

\* ------------------------------------------------------- the loaded module
\* The order list of the module file (order -> pattern) and the number of rows
\* of each pattern: the data openmpt_module_get_order_pattern and
\* openmpt_module_get_pattern_num_rows answer from.
OrderTable == <<0, 1, 0>>
RowsTable == <<2, 3>>
num_orders == Len(OrderTable)
\* Channels of the module (openmpt_module_get_num_channels).
num_channels == 2
Orders == 0 .. (num_orders - 1)
Channels == 0 .. (num_channels - 1)

get_order_pattern(o) == OrderTable[o + 1]
get_pattern_num_rows(p) == RowsTable[p + 1]

VARIABLES
    \* the engine (libopenmpt): position cursor and per-channel volume
    cur_order, cur_row, chan_vol,
    \* AudioData
    interactive_ok, mute_states,
    \* main: `int ch` of the digit-key handler
    k_ch,
    pattern_mode, loop_pattern, loop_order, paused,
    command_queue, command_queue_head, command_queue_tail,
    queued_order, queued_row, has_queued_jump,
    loop_till_row, is_looping_till,
    pending_pattern_mode_order,
    \* main: static prev_row, the locals of the key handlers and of the tick
    prev_row, cpc, k_order, e_cmd, t_order, t_row, t_rows,
    \* audio_callback: where the callback is
    rpc,
    \* reapply_mutes called by audio_callback: `int ch` and the volume
    \* argument evaluated for the set_channel_volume call
    r_ch, r_vol,
    \* the keyboard: key presses still to come
    keys_left,
    \* history: the commands accepted and not yet dequeued, in order of
    \* acceptance; the number of commands enqueue_command dropped; how many
    \* pattern-loop ticks in a row found cur_order != loop_order (up to 2)
    pendingq, dropped, drift_ticks,
    \* history of the callback invocation in progress: set_position calls
    \* made inside process_commands and made for has_queued_jump (each up
    \* to 2), whether a command was enqueued after its process_commands
    \* returned,
    \* QUEUE_ORDER commands it took up in song mode (up to 2), and their
    \* targets not yet jumped to
    cb_jumps, cb_deferred, cb_enq, cb_qo, owed,
    \* history: the mode and loop target in effect when loop-till-row was
    \* engaged
    suspended

engine == <<cur_order, cur_row, chan_vol>>
position == <<cur_order, cur_row>>
queue == <<command_queue, command_queue_head, command_queue_tail>>
transport == <<pattern_mode, loop_pattern, loop_order, paused, queued_order,
               queued_row, has_queued_jump, loop_till_row, is_looping_till,
               pending_pattern_mode_order>>
reapply == <<r_ch, r_vol>>
mutes == <<interactive_ok, mute_states, k_ch, reapply>>
locals == <<k_order, e_cmd, t_order, t_row, t_rows>>
invocation == <<cb_jumps, cb_deferred, cb_enq, cb_qo, owed>>
history == <<pendingq, dropped, drift_ticks, invocation, suspended>>
vars == <<engine, queue, transport, mutes, prev_row, cpc, locals, rpc,
          keys_left, history>>

Command(t, o, r) == [type |-> t, order |-> o, row |-> r]
NoCommand == Command(PLAYBACK_NONE, 0, 0)

\* The mode and loop target a loop-till-row suspends; none when no
\* loop-till-row is engaged or the mode toggle has run since.
Suspended(m, o, p) == [mode |-> m, order |-> o, pattern |-> p]
NotSuspended == Suspended(-1, -1, -1)

\* reapply_mutes: the volume each channel gets (0 for 0.0, 1 for 1.0).
MutedVolume(m) == IF m # 0 THEN 0 ELSE 1
\* A reapply_mutes that flips the volume of a muted channel.
reapply_mutes_flipping ==
    IF interactive_ok = 0 THEN chan_vol
    ELSE [ch \in Channels |->
             IF mute_states[ch] # 0 THEN 1 - chan_vol[ch] ELSE 1]

reapply_mutes ==
    IF interactive_ok = 0 THEN chan_vol
    ELSE [ch \in Channels |-> MutedVolume(mute_states[ch])]

\* reapply_mutes as the loop runs it: from channel ch on, one
\* set_channel_volume call per channel, on the mute vector m and volumes v.
RECURSIVE ReapplyLoop(_, _, _)
ReapplyLoop(ch, m, v) ==
    IF ch >= num_channels THEN v
    ELSE ReapplyLoop(ch + 1, m, [v EXCEPT ![ch] = MutedVolume(m[ch])])

\* The state main sets up before SDL_PauseAudio(0) starts the callback.
InitState ==
    /\ cur_order = 0 /\ cur_row = 0
    /\ chan_vol = [ch \in Channels |-> 1]
    /\ interactive_ok = 1
    /\ mute_states = [ch \in Channels |-> 0]
    /\ pattern_mode = 0 /\ loop_pattern = 0 /\ loop_order = 0 /\ paused = 1
    /\ command_queue = [i \in 0 .. (MAX_COMMANDS - 1) |-> NoCommand]
    /\ command_queue_head = 0 /\ command_queue_tail = 0
    /\ queued_order = 0 /\ queued_row = 0 /\ has_queued_jump = 0
    /\ loop_till_row = 0 /\ is_looping_till = 0
    /\ pending_pattern_mode_order = -1
    /\ prev_row = -1 /\ cpc = "poll"
    /\ k_order = 0 /\ e_cmd = NoCommand
    /\ t_order = 0 /\ t_row = 0 /\ t_rows = 0
    /\ rpc = "idle"
    /\ k_ch = 0
    /\ r_ch = 0 /\ r_vol = 0
    /\ pendingq = <<>> /\ dropped = 0 /\ drift_ticks = 0
    /\ cb_jumps = 0 /\ cb_deferred = 0 /\ cb_enq = 0
    /\ cb_qo = 0 /\ owed = {}
    /\ suspended = NotSuspended

\* ------------------------------------------------------------ the engine
\* openmpt_module_read_interleaved_stereo: decoding a buffer leaves the
\* position where it is or moves it one row on; after the last row of a
\* pattern comes row 0 of the next order, after the last order the song
\* restarts at order 0.
NextRowPosition(o, r) ==
    IF r + 1 < get_pattern_num_rows(get_order_pattern(o)) THEN <<o, r + 1>>
    ELSE IF o + 1 < num_orders THEN <<o + 1, 0>>
    ELSE <<0, 0>>

\* openmpt_module_set_position_order_row
set_position_order_row(o, r) == cur_order' = o /\ cur_row' = r
\* What a jump does to the channel volumes set through the interactive
\* interface is the engine's business: they stay, or are back at 1.0.
JumpResetsVolume == chan_vol' \in {chan_vol, [ch \in Channels |-> 1]}
\* Counting up to 2: none, one, several.
UpTo2(n) == IF n < 2 THEN n + 1 ELSE 2
\* The invocation is over: its history is forgotten.
InvocationOver ==
    /\ cb_jumps' = 0 /\ cb_deferred' = 0 /\ cb_enq' = 0
    /\ cb_qo' = 0 /\ owed' = {}

\* ------------------------------------------------------- audio_callback
\* The callback is called by the audio thread.
CallbackStart ==
    /\ rpc = "idle"
    /\ rpc' = "drain"
    /\ UNCHANGED <<engine, queue, transport, mutes, prev_row, cpc, locals,
                   keys_left, history>>

\* A process_commands that takes the newest command instead of the oldest.
cmd_newest ==
    command_queue[(command_queue_tail + MAX_COMMANDS - 1) % MAX_COMMANDS]

\* process_commands: the command at the head of the queue.
cmd == command_queue[command_queue_head]

\* A process_commands that may return with commands left in the queue.
DrainDoneEarly ==
    /\ rpc = "drain"
    /\ rpc' = "cb_jump"
    /\ UNCHANGED <<engine, queue, transport, mutes, prev_row, cpc, locals,
                   keys_left, history>>

\* process_commands, `while (head != tail)` with nothing pending: return.
DrainDone ==
    /\ rpc = "drain"
    /\ command_queue_head = command_queue_tail
    /\ rpc' = "cb_jump"
    /\ UNCHANGED <<engine, queue, transport, mutes, prev_row, cpc, locals,
                   keys_left, history>>

\* A QUEUE_ORDER case that asks for the jump whatever the mode.
ApplyQueueOrderAlwaysJump ==
    /\ rpc = "drain"
    /\ command_queue_head # command_queue_tail
    /\ cmd.type = PLAYBACK_QUEUE_ORDER
    /\ queued_order' = cmd.order
    /\ queued_row' = cmd.row
    /\ has_queued_jump' = 1
    /\ rpc' = "adv"
    /\ UNCHANGED <<engine, queue, mutes, prev_row, cpc, locals, keys_left,
                   history, pattern_mode, loop_pattern, loop_order, paused,
                   loop_till_row, is_looping_till, pending_pattern_mode_order>>

\* A QUEUE_ORDER case that stores the pending order whatever the mode.
ApplyQueueOrderAlwaysPending ==
    /\ rpc = "drain"
    /\ command_queue_head # command_queue_tail
    /\ cmd.type = PLAYBACK_QUEUE_ORDER
    /\ pending_pattern_mode_order' = cmd.order
    /\ rpc' = "adv"
    /\ UNCHANGED <<engine, queue, mutes, prev_row, cpc, locals, keys_left,
                   history, pattern_mode, loop_pattern, loop_order, paused,
                   queued_order, queued_row, has_queued_jump, loop_till_row,
                   is_looping_till>>

\* process_commands, case PLAYBACK_QUEUE_ORDER.
ApplyQueueOrder ==
    /\ rpc = "drain"
    /\ command_queue_head # command_queue_tail
    /\ cmd.type = PLAYBACK_QUEUE_ORDER
    /\ IF pattern_mode # 0
       THEN /\ pending_pattern_mode_order' = cmd.order
            /\ UNCHANGED <<queued_order, queued_row, has_queued_jump, cb_qo,
                           owed>>
       ELSE /\ queued_order' = cmd.order
            /\ queued_row' = cmd.row
            /\ has_queued_jump' = 1
            /\ cb_qo' = UpTo2(cb_qo)
            /\ owed' = owed \cup {<<cmd.order, cmd.row>>}
            /\ UNCHANGED pending_pattern_mode_order
    /\ rpc' = "adv"
    /\ UNCHANGED <<engine, queue, mutes, prev_row, cpc, locals, keys_left,
                   pendingq, dropped, drift_ticks, cb_jumps, cb_deferred,
                   cb_enq, suspended, pattern_mode, loop_pattern, loop_order,
                   paused, loop_till_row, is_looping_till>>

\* process_commands, case PLAYBACK_LOOP_TILL_ROW: loop_order = cmd->order.
ApplyLoopTillOrder ==
    /\ rpc = "drain"
    /\ command_queue_head # command_queue_tail
    /\ cmd.type = PLAYBACK_LOOP_TILL_ROW
    /\ loop_order' = cmd.order
    /\ suspended' = IF is_looping_till = 0
                    THEN Suspended(pattern_mode, loop_order, loop_pattern)
                    ELSE suspended
    /\ rpc' = "ltr_fields"
    /\ UNCHANGED <<engine, queue, mutes, prev_row, cpc, locals, keys_left,
                   pendingq, dropped, drift_ticks, cb_jumps, cb_deferred,
                   cb_enq, cb_qo, owed, pattern_mode, loop_pattern, paused,
                   queued_order, queued_row, has_queued_jump, loop_till_row,
                   is_looping_till, pending_pattern_mode_order>>

\* loop_pattern = get_order_pattern(cmd->order); loop_till_row = cmd->row.
ApplyLoopTillFields ==
    /\ rpc = "ltr_fields"
    /\ loop_pattern' = get_order_pattern(cmd.order)
    /\ loop_till_row' = cmd.row
    /\ rpc' = "ltr_flag"
    /\ UNCHANGED <<engine, queue, mutes, prev_row, cpc, locals, keys_left,
                   history, pattern_mode, loop_order, paused, queued_order,
                   queued_row, has_queued_jump, is_looping_till,
                   pending_pattern_mode_order>>

\* is_looping_till = 1.
ApplyLoopTillFlag ==
    /\ rpc = "ltr_flag"
    /\ is_looping_till' = 1
    /\ rpc' = "ltr_set"
    /\ UNCHANGED <<engine, queue, mutes, prev_row, cpc, locals, keys_left,
                   history, pattern_mode, loop_pattern, loop_order, paused,
                   queued_order, queued_row, has_queued_jump, loop_till_row,
                   pending_pattern_mode_order>>

\* set_position_order_row(cmd->order, 0); reapply_mutes.
ApplyLoopTillJump ==
    /\ rpc = "ltr_set"
    /\ set_position_order_row(cmd.order, 0)
    /\ chan_vol' = reapply_mutes
    /\ cb_jumps' = UpTo2(cb_jumps)
    /\ rpc' = "adv"
    /\ UNCHANGED <<queue, transport, mutes, prev_row, cpc, locals, keys_left,
                   pendingq, dropped, drift_ticks, cb_deferred, cb_enq, cb_qo,
                   owed, suspended>>

\* command_queue_head = (command_queue_head + 1) % MAX_COMMANDS.
NextHead(h) == (h + 1) % MAX_COMMANDS
AdvanceHead ==
    /\ rpc = "adv"
    /\ command_queue_head' = NextHead(command_queue_head)
    /\ pendingq' = IF pendingq = <<>> THEN pendingq ELSE Tail(pendingq)
    /\ rpc' = "drain"
    /\ UNCHANGED <<engine, command_queue, command_queue_tail, transport,
                   mutes, prev_row, cpc, locals, keys_left, dropped,
                   drift_ticks, cb_jumps, cb_deferred, cb_enq, cb_qo, owed,
                   suspended>>

\* audio_callback, `if (data->has_queued_jump)`: the jump.
CallbackJump ==
    /\ rpc = "cb_jump"
    /\ IF has_queued_jump # 0
       THEN /\ set_position_order_row(queued_order, queued_row)
            /\ JumpResetsVolume
            /\ cb_deferred' = UpTo2(cb_deferred)
            /\ owed' = owed \ {<<queued_order, queued_row>>}
            /\ rpc' = "cb_clear"
       ELSE /\ UNCHANGED <<engine, cb_deferred, owed>>
            /\ rpc' = "cb_render"
    /\ UNCHANGED <<queue, transport, mutes, prev_row, cpc, locals, keys_left,
                   pendingq, dropped, drift_ticks, cb_jumps, cb_enq, cb_qo,
                   suspended>>

\* A callback that goes back to the has_queued_jump test after the jump and
\* leaves the flag set.
CallbackJumpClearRecheck ==
    /\ rpc = "cb_clear"
    /\ interactive_ok = 0 \/ r_ch = num_channels
    /\ r_ch' = 0
    /\ rpc' = "cb_jump"
    /\ UNCHANGED <<engine, queue, transport, interactive_ok, mute_states,
                   k_ch, r_vol, prev_row, cpc, locals, keys_left, history>>

\* reapply_mutes in the callback, `ch < num_channels`: the argument
\* `mute_states[ch] ? 0.0 : 1.0` is evaluated.
ReapplyRead ==
    /\ rpc = "cb_clear"
    /\ interactive_ok # 0 /\ r_ch < num_channels
    /\ r_vol' = MutedVolume(mute_states[r_ch])
    /\ rpc' = "cb_setvol"
    /\ UNCHANGED <<engine, queue, transport, interactive_ok, mute_states,
                   k_ch, r_ch, prev_row, cpc, locals, keys_left, history>>

\* reapply_mutes in the callback: set_channel_volume(ch, ...); ++ch.
ReapplyCall ==
    /\ rpc = "cb_setvol"
    /\ chan_vol' = [chan_vol EXCEPT ![r_ch] = r_vol]
    /\ r_ch' = r_ch + 1
    /\ r_vol' = 0
    /\ rpc' = "cb_clear"
    /\ UNCHANGED <<position, queue, transport, interactive_ok, mute_states,
                   k_ch, prev_row, cpc, locals, keys_left, history>>

\* reapply_mutes has returned; has_queued_jump = 0.
CallbackJumpClear ==
    /\ rpc = "cb_clear"
    /\ interactive_ok = 0 \/ r_ch = num_channels
    /\ r_ch' = 0
    /\ has_queued_jump' = 0
    /\ rpc' = "cb_render"
    /\ UNCHANGED <<engine, queue, interactive_ok, mute_states, k_ch, r_vol,
                   prev_row, cpc, locals, keys_left, history, pattern_mode,
                   loop_pattern, loop_order, paused, queued_order, queued_row,
                   loop_till_row, is_looping_till, pending_pattern_mode_order>>

\* A paused branch that reads the engine before it returns.
CallbackSilenceDecodes ==
    /\ rpc = "cb_render"
    /\ paused # 0
    /\ \E p \in {position, NextRowPosition(cur_order, cur_row)} :
          set_position_order_row(p[1], p[2])
    /\ rpc' = "idle"
    /\ InvocationOver
    /\ UNCHANGED <<chan_vol, queue, transport, mutes, prev_row, cpc, locals,
                   keys_left, pendingq, dropped, drift_ticks, suspended>>

\* `if (data->paused)`: silence, the engine is not read.
CallbackSilence ==
    /\ rpc = "cb_render"
    /\ paused # 0
    /\ rpc' = "idle"
    /\ InvocationOver
    /\ UNCHANGED <<engine, queue, transport, mutes, prev_row, cpc, locals,
                   keys_left, pendingq, dropped, drift_ticks, suspended>>

\* `if (data->paused)` not taken: the callback goes on to the read.
CallbackPlaying ==
    /\ rpc = "cb_render"
    /\ paused = 0
    /\ rpc' = "cb_read"
    /\ UNCHANGED <<engine, queue, transport, mutes, prev_row, cpc, locals,
                   keys_left, history>>

\* openmpt_module_read_interleaved_stereo.
CallbackDecode ==
    /\ rpc = "cb_read"
    /\ \E p \in {position, NextRowPosition(cur_order, cur_row)} :
          set_position_order_row(p[1], p[2])
    /\ rpc' = "idle"
    /\ InvocationOver
    /\ UNCHANGED <<chan_vol, queue, transport, mutes, prev_row, cpc, locals,
                   keys_left, pendingq, dropped, drift_ticks, suspended>>

Render ==
    \/ CallbackStart \/ DrainDone \/ ApplyQueueOrder \/ ApplyLoopTillOrder
    \/ ApplyLoopTillFields \/ ApplyLoopTillFlag \/ ApplyLoopTillJump
    \/ AdvanceHead \/ CallbackJump
    \/ ReapplyRead \/ ReapplyCall \/ CallbackJumpClear \/ CallbackSilence
    \/ CallbackPlaying \/ CallbackDecode

\* ------------------------------------------------------------------ main
\* read_key_nonblocking returned -1: no key this iteration.
KeyNone ==
    /\ cpc = "poll"
    /\ cpc' = "tick"
    /\ UNCHANGED <<engine, queue, transport, mutes, prev_row, locals, rpc,
                   keys_left, history>>

\* k == ' ': paused = !paused.
KeySpace ==
    /\ cpc = "poll" /\ keys_left > 0
    /\ keys_left' = keys_left - 1
    /\ paused' = 1 - paused
    /\ cpc' = "tick"
    /\ UNCHANGED <<engine, queue, mutes, prev_row, locals, rpc, history,
                   pattern_mode, loop_pattern, loop_order, queued_order,
                   queued_row, has_queued_jump, loop_till_row,
                   is_looping_till, pending_pattern_mode_order>>

\* k == 'r': cur_order = get_current_order.
KeyRetrigger ==
    /\ cpc = "poll" /\ keys_left > 0
    /\ keys_left' = keys_left - 1
    /\ k_order' = cur_order
    /\ cpc' = "r_set"
    /\ UNCHANGED <<engine, queue, transport, mutes, prev_row, e_cmd, t_order,
                   t_row, t_rows, rpc, history>>

\* set_position_order_row(cur_order, 0).
RetriggerJump ==
    /\ cpc = "r_set"
    /\ set_position_order_row(k_order, 0)
    /\ JumpResetsVolume
    /\ cpc' = "r_mute"
    /\ UNCHANGED <<queue, transport, mutes, prev_row, locals, rpc, keys_left,
                   history>>

\* if (interactive_ok) reapply_mutes.
RetriggerMutes ==
    /\ cpc = "r_mute"
    /\ chan_vol' = reapply_mutes
    /\ k_order' = 0
    /\ cpc' = "tick"
    /\ UNCHANGED <<position, queue, transport, mutes, prev_row, e_cmd,
                   t_order, t_row, t_rows, rpc, keys_left, history>>

\* An 'n' key that enqueues next_order without the num_orders test.
KeyNextUnclamped ==
    /\ cpc = "poll" /\ keys_left > 0
    /\ keys_left' = keys_left - 1
    /\ e_cmd' = Command(PLAYBACK_QUEUE_ORDER, cur_order + 1, 0)
    /\ cpc' = "enq"
    /\ UNCHANGED <<engine, queue, transport, mutes, prev_row, k_order,
                   t_order, t_row, t_rows, rpc, history>>

\* k == 'n': next_order = cur_order + 1; enqueued if next_order < num_orders.
KeyNext ==
    /\ cpc = "poll" /\ keys_left > 0
    /\ keys_left' = keys_left - 1
    /\ IF cur_order + 1 < num_orders
       THEN /\ e_cmd' = Command(PLAYBACK_QUEUE_ORDER, cur_order + 1, 0)
            /\ cpc' = "enq"
       ELSE /\ UNCHANGED e_cmd
            /\ cpc' = "tick"
    /\ UNCHANGED <<engine, queue, transport, mutes, prev_row, k_order,
                   t_order, t_row, t_rows, rpc, history>>

\* k == 'p': prev_order = cur_order > 0 ? cur_order - 1 : 0.
KeyPrev ==
    /\ cpc = "poll" /\ keys_left > 0
    /\ keys_left' = keys_left - 1
    /\ e_cmd' = Command(PLAYBACK_QUEUE_ORDER,
                        IF cur_order > 0 THEN cur_order - 1 ELSE 0, 0)
    /\ cpc' = "enq"
    /\ UNCHANGED <<engine, queue, transport, mutes, prev_row, k_order,
                   t_order, t_row, t_rows, rpc, history>>

\* k == 'j': cur_order = get_current_order.
KeyLoopTill ==
    /\ cpc = "poll" /\ keys_left > 0
    /\ keys_left' = keys_left - 1
    /\ k_order' = cur_order
    /\ cpc' = "j_row"
    /\ UNCHANGED <<engine, queue, transport, mutes, prev_row, e_cmd, t_order,
                   t_row, t_rows, rpc, history>>

\* cur_row = get_current_row; enqueue_command(LOOP_TILL_ROW, cur_order, cur_row).
LoopTillKeyRow ==
    /\ cpc = "j_row"
    /\ e_cmd' = Command(PLAYBACK_LOOP_TILL_ROW, k_order, cur_row)
    /\ k_order' = 0
    /\ cpc' = "enq"
    /\ UNCHANGED <<engine, queue, transport, mutes, prev_row, t_order, t_row,
                   t_rows, rpc, keys_left, history>>

\* k == 's': pattern_mode = !pattern_mode.
KeyToggleMode ==
    /\ cpc = "poll" /\ keys_left > 0
    /\ keys_left' = keys_left - 1
    /\ pattern_mode' = 1 - pattern_mode
    /\ suspended' = NotSuspended
    /\ cpc' = IF pattern_mode' # 0 THEN "s_order" ELSE "tick"
    /\ UNCHANGED <<engine, queue, mutes, prev_row, locals, rpc, pendingq,
                   dropped, drift_ticks, invocation, loop_pattern, loop_order,
                   paused, queued_order, queued_row, has_queued_jump,
                   loop_till_row, is_looping_till, pending_pattern_mode_order>>

\* loop_order = get_current_order.
ToggleReadOrder ==
    /\ cpc = "s_order"
    /\ loop_order' = cur_order
    /\ suspended' = NotSuspended
    /\ cpc' = "s_pattern"
    /\ UNCHANGED <<engine, queue, mutes, prev_row, locals, rpc, keys_left,
                   pendingq, dropped, drift_ticks, invocation, pattern_mode,
                   loop_pattern, paused, queued_order, queued_row,
                   has_queued_jump, loop_till_row, is_looping_till,
                   pending_pattern_mode_order>>

\* loop_pattern = get_current_pattern; pending_pattern_mode_order = -1.
ToggleReadPattern ==
    /\ cpc = "s_pattern"
    /\ loop_pattern' = get_order_pattern(cur_order)
    /\ suspended' = NotSuspended
    /\ pending_pattern_mode_order' = -1
    /\ cpc' = "tick"
    /\ UNCHANGED <<engine, queue, mutes, prev_row, locals, rpc, keys_left,
                   pendingq, dropped, drift_ticks, invocation, pattern_mode,
                   loop_order, paused, queued_order, queued_row,
                   has_queued_jump, loop_till_row, is_looping_till>>

\* The digit keys '1' .. '9' as 0-based channel indices (ch = k - '1').
DigitChannels == 0 .. 8

\* interactive_ok && k >= '1' && k <= '9': int ch = k - '1'.
KeyDigit ==
    /\ cpc = "poll" /\ keys_left > 0
    /\ interactive_ok # 0
    /\ keys_left' = keys_left - 1
    /\ \E ch \in DigitChannels : k_ch' = ch
    /\ cpc' = "d_check"
    /\ UNCHANGED <<engine, queue, transport, interactive_ok, mute_states,
                   reapply, prev_row, locals, rpc, history>>

\* A digit handler without the `ch < num_channels` test: it writes
\* mute_states[ch] wherever that is.
DigitToggleUnchecked ==
    /\ cpc = "d_check"
    /\ mute_states' =
          [c \in (DOMAIN mute_states) \cup {k_ch} |->
              IF c # k_ch THEN mute_states[c]
              ELSE IF c \in DOMAIN mute_states /\ mute_states[c] # 0
                   THEN 0 ELSE 1]
    /\ cpc' = "d_vol"
    /\ UNCHANGED <<engine, queue, transport, interactive_ok, k_ch, reapply,
                   prev_row, locals, rpc, keys_left, history>>

\* `if (ch < num_channels)`: mute_states[ch] = !mute_states[ch].
DigitToggle ==
    /\ cpc = "d_check"
    /\ IF k_ch < num_channels
       THEN /\ mute_states' =
                  [mute_states EXCEPT
                      ![k_ch] = IF mute_states[k_ch] # 0 THEN 0 ELSE 1]
            /\ cpc' = "d_vol"
            /\ UNCHANGED k_ch
       ELSE /\ cpc' = "tick"
            /\ k_ch' = 0
            /\ UNCHANGED mute_states
    /\ UNCHANGED <<engine, queue, transport, interactive_ok, reapply,
                   prev_row, locals, rpc, keys_left, history>>

\* set_channel_volume(ch, mute_states[ch] ? 0.0 : 1.0).
DigitVolume ==
    /\ cpc = "d_vol"
    /\ chan_vol' =
          [chan_vol EXCEPT ![k_ch] = MutedVolume(mute_states[k_ch])]
    /\ k_ch' = 0
    /\ cpc' = "tick"
    /\ UNCHANGED <<position, queue, transport, interactive_ok, mute_states,
                   reapply, prev_row, locals, rpc, keys_left, history>>

\* ------------------------------------------------------ enqueue_command
NextTail(t) == (t + 1) % MAX_COMMANDS
QueueFull(h, t) == NextTail(t) = h

\* An enqueue_command without the `next_tail != head` test: it writes the
\* slot at tail whatever the occupancy.
EnqueueCommandUnchecked ==
    /\ cpc = "enq"
    /\ command_queue' = [command_queue EXCEPT ![command_queue_tail] = e_cmd]
    /\ cpc' = "enq_tail"
    /\ UNCHANGED <<engine, command_queue_head, command_queue_tail, transport,
                   mutes, prev_row, locals, rpc, keys_left, history>>

\* An enqueue_command that makes room when the queue is full by dropping
\* the oldest command (it moves head).
EnqueueCommandDropOldest ==
    /\ cpc = "enq"
    /\ command_queue' = [command_queue EXCEPT ![command_queue_tail] = e_cmd]
    /\ IF QueueFull(command_queue_head, command_queue_tail)
       THEN /\ command_queue_head' = NextTail(command_queue_head)
            /\ pendingq' = Tail(pendingq)
            /\ dropped' = dropped + 1
       ELSE UNCHANGED <<command_queue_head, pendingq, dropped>>
    /\ cpc' = "enq_tail"
    /\ UNCHANGED <<engine, command_queue_tail, transport, mutes, prev_row,
                   locals, rpc, keys_left, drift_ticks, invocation, suspended>>

\* next_tail == head: the command is dropped; else the slot at tail is
\* written (type, order, row).
EnqueueCommand ==
    /\ cpc = "enq"
    /\ IF QueueFull(command_queue_head, command_queue_tail)
       THEN /\ dropped' = dropped + 1
            /\ cpc' = "tick"
            /\ e_cmd' = NoCommand
            /\ UNCHANGED command_queue
       ELSE /\ command_queue' =
                   [command_queue EXCEPT ![command_queue_tail] = e_cmd]
            /\ cpc' = "enq_tail"
            /\ UNCHANGED <<dropped, e_cmd>>
    /\ UNCHANGED <<engine, command_queue_head, command_queue_tail, transport,
                   mutes, prev_row, k_order, t_order, t_row, t_rows, rpc,
                   keys_left, pendingq, drift_ticks, invocation, suspended>>

\* The callback is past process_commands.
Drained ==
    rpc \in {"cb_jump", "cb_clear", "cb_setvol", "cb_render", "cb_read"}

\* command_queue_tail = next_tail.
EnqueuePublish ==
    /\ cpc = "enq_tail"
    /\ command_queue_tail' = NextTail(command_queue_tail)
    /\ pendingq' = Append(pendingq, e_cmd)
    /\ cb_enq' = IF Drained THEN 1 ELSE cb_enq
    /\ e_cmd' = NoCommand
    /\ cpc' = "tick"
    /\ UNCHANGED <<engine, command_queue, command_queue_head, transport,
                   mutes, prev_row, k_order, t_order, t_row, t_rows, rpc,
                   keys_left, dropped, drift_ticks, cb_jumps, cb_deferred,
                   cb_qo, owed, suspended>>

\* ------------------------------------------- main: the per-tick transport
\* cur_order, cur_row and rows are locals of the tick's block: they are gone
\* when the block is left.
TickLocalsGone ==
    /\ t_order' = 0 /\ t_row' = 0 /\ t_rows' = 0
    /\ UNCHANGED <<k_order, e_cmd>>

\* A pattern branch that is taken whenever pattern_mode is set.
TickPatternAnyway ==
    /\ cpc = "tick"
    /\ pattern_mode # 0
    /\ t_order' = cur_order
    /\ cpc' = "pt_row"
    /\ UNCHANGED <<engine, queue, transport, mutes, prev_row, k_order, e_cmd,
                   t_row, t_rows, rpc, keys_left, history>>

\* `if (pattern_mode && !is_looping_till)`: cur_order = get_current_order.
TickPattern ==
    /\ cpc = "tick"
    /\ pattern_mode # 0 /\ is_looping_till = 0
    /\ t_order' = cur_order
    /\ cpc' = "pt_row"
    /\ UNCHANGED <<engine, queue, transport, mutes, prev_row, k_order, e_cmd,
                   t_row, t_rows, rpc, keys_left, history>>

\* cur_row = get_current_row; rows = get_pattern_num_rows(loop_pattern).
PatternReadRow ==
    /\ cpc = "pt_row"
    /\ t_row' = cur_row
    /\ t_rows' = get_pattern_num_rows(loop_pattern)
    /\ cpc' = "pt_wrap"
    /\ UNCHANGED <<engine, queue, transport, mutes, prev_row, k_order, e_cmd,
                   t_order, rpc, keys_left, history>>

\* The wrap test of both loops: prev_row == rows - 1 && cur_row == 0.
WrapDetected(prev, rows, row) == prev = rows - 1 /\ row = 0
\* A switch test that takes any pending order, the loop order included.
PendingSwitchAlways(pending, lo) == pending # -1

\* The pending order gets the loop: it is set and is not the loop order.
PendingSwitch(pending, lo) == pending # -1 /\ pending # lo

\* `if (prev_row == rows - 1 && cur_row == 0)`: the loop switches to the
\* pending order, or snaps back to loop_order; the jump is made here.
PatternWrap ==
    /\ cpc = "pt_wrap"
    /\ IF WrapDetected(prev_row, t_rows, t_row)
       THEN IF PendingSwitch(pending_pattern_mode_order, loop_order)
            THEN /\ loop_order' = pending_pattern_mode_order
                 /\ loop_pattern' = get_order_pattern(loop_order')
                 /\ set_position_order_row(loop_order', 0)
                 /\ JumpResetsVolume
                 /\ cpc' = "pt_switch_mute"
            ELSE /\ set_position_order_row(loop_order, 0)
                 /\ JumpResetsVolume
                 /\ cpc' = "pt_snap_mute"
                 /\ UNCHANGED <<loop_order, loop_pattern>>
       ELSE /\ cpc' = "pt_prev"
            /\ UNCHANGED <<engine, loop_order, loop_pattern>>
    /\ UNCHANGED <<queue, mutes, prev_row, locals, rpc, keys_left, history,
                   pattern_mode, paused, queued_order, queued_row,
                   has_queued_jump, loop_till_row, is_looping_till,
                   pending_pattern_mode_order>>

\* After the switch: reapply_mutes; pending_pattern_mode_order = -1.
PatternSwitchMutes ==
    /\ cpc = "pt_switch_mute"
    /\ chan_vol' = reapply_mutes
    /\ pending_pattern_mode_order' = -1
    /\ cpc' = "pt_prev"
    /\ UNCHANGED <<position, queue, mutes, prev_row, locals, rpc, keys_left,
                   history, pattern_mode, loop_pattern, loop_order, paused,
                   queued_order, queued_row, has_queued_jump, loop_till_row,
                   is_looping_till>>

\* After the snap to loop_order: reapply_mutes.
PatternSnapMutes ==
    /\ cpc = "pt_snap_mute"
    /\ chan_vol' = reapply_mutes
    /\ cpc' = "pt_prev"
    /\ UNCHANGED <<position, queue, transport, mutes, prev_row, locals, rpc,
                   keys_left, history>>

\* A tick that finds cur_order != loop_order and leaves the position alone.
PatternDriftNoSnap ==
    /\ cpc = "pt_prev"
    /\ prev_row' = t_row
    /\ drift_ticks' = IF t_order = loop_order THEN 0
                      ELSE IF drift_ticks < 2 THEN drift_ticks + 1 ELSE 2
    /\ cpc' = IF t_order # loop_order THEN "pt_drift_mute" ELSE "poll"
    /\ TickLocalsGone
    /\ UNCHANGED <<engine, queue, transport, mutes, rpc, keys_left, pendingq,
                   dropped, invocation, suspended>>

\* prev_row = cur_row; `if (cur_order != loop_order)`: the snap back.
PatternDrift ==
    /\ cpc = "pt_prev"
    /\ prev_row' = t_row
    /\ drift_ticks' = IF t_order = loop_order THEN 0
                      ELSE IF drift_ticks < 2 THEN drift_ticks + 1 ELSE 2
    /\ IF t_order # loop_order
       THEN /\ set_position_order_row(loop_order, 0)
            /\ JumpResetsVolume
            /\ cpc' = "pt_drift_mute"
       ELSE /\ UNCHANGED engine
            /\ cpc' = "poll"
    /\ TickLocalsGone
    /\ UNCHANGED <<queue, transport, mutes, rpc, keys_left, pendingq, dropped,
                   invocation, suspended>>

\* After the snap back: reapply_mutes; prev_row = -1.
PatternDriftMutes ==
    /\ cpc = "pt_drift_mute"
    /\ chan_vol' = reapply_mutes
    /\ prev_row' = -1
    /\ cpc' = "poll"
    /\ UNCHANGED <<position, queue, transport, mutes, locals, rpc, keys_left,
                   history>>

\* `else if (is_looping_till)`: cur_order = get_current_order.
TickLoopTill ==
    /\ cpc = "tick"
    /\ drift_ticks' = 0
    /\ is_looping_till # 0
    /\ t_order' = cur_order
    /\ cpc' = "lt_row"
    /\ UNCHANGED <<engine, queue, transport, mutes, prev_row, k_order, e_cmd,
                   t_row, t_rows, rpc, keys_left, pendingq, dropped,
                   invocation, suspended>>

\* cur_row = get_current_row; rows = get_pattern_num_rows(loop_pattern).
LoopTillTickRow ==
    /\ cpc = "lt_row"
    /\ t_row' = cur_row
    /\ t_rows' = get_pattern_num_rows(loop_pattern)
    /\ cpc' = "lt_act"
    /\ UNCHANGED <<engine, queue, transport, mutes, prev_row, k_order, e_cmd,
                   t_order, rpc, keys_left, history>>

\* An exit test that forgets the row.
StopRowSeenAnyRow(o, r, lo, stop) == o = lo

\* The exit test of loop-till-row: the order and row read are the loop's.
StopRowSeen(o, r, lo, stop) == o = lo /\ r = stop

\* A loop-till-row tick that snaps back when it finds another order.
LoopTillActSnapsDrift ==
    /\ cpc = "lt_act"
    /\ IF t_order = loop_order
       THEN IF StopRowSeen(t_order, t_row, loop_order, loop_till_row)
            THEN /\ is_looping_till' = 0
                 /\ prev_row' = t_row
                 /\ cpc' = "poll"
                 /\ suspended' = NotSuspended
                 /\ UNCHANGED engine
            ELSE IF WrapDetected(prev_row, t_rows, t_row)
            THEN /\ set_position_order_row(loop_order, 0)
                 /\ JumpResetsVolume
                 /\ cpc' = "lt_mute"
                 /\ UNCHANGED <<is_looping_till, prev_row, suspended>>
            ELSE /\ prev_row' = t_row
                 /\ cpc' = "poll"
                 /\ UNCHANGED <<is_looping_till, engine, suspended>>
       ELSE /\ set_position_order_row(loop_order, 0)
            /\ JumpResetsVolume
            /\ cpc' = "lt_mute"
            /\ UNCHANGED <<is_looping_till, prev_row, suspended>>
    /\ IF cpc' = "lt_mute" THEN UNCHANGED locals ELSE TickLocalsGone
    /\ UNCHANGED <<queue, mutes, rpc, keys_left, pendingq, dropped,
                   drift_ticks, invocation, pattern_mode, loop_pattern,
                   loop_order, paused, queued_order, queued_row,
                   has_queued_jump, loop_till_row, pending_pattern_mode_order>>

\* `if (cur_order == loop_order)`: exit at the stop row, snap at a wrap.
LoopTillAct ==
    /\ cpc = "lt_act"
    /\ IF t_order = loop_order
       THEN IF StopRowSeen(t_order, t_row, loop_order, loop_till_row)
            THEN /\ is_looping_till' = 0
                 /\ prev_row' = t_row
                 /\ cpc' = "poll"
                 /\ suspended' = NotSuspended
                 /\ UNCHANGED engine
            ELSE IF WrapDetected(prev_row, t_rows, t_row)
            THEN /\ set_position_order_row(loop_order, 0)
                 /\ JumpResetsVolume
                 /\ cpc' = "lt_mute"
                 /\ UNCHANGED <<is_looping_till, prev_row, suspended>>
            ELSE /\ prev_row' = t_row
                 /\ cpc' = "poll"
                 /\ UNCHANGED <<is_looping_till, engine, suspended>>
       ELSE /\ prev_row' = -1
            /\ cpc' = "poll"
            /\ UNCHANGED <<is_looping_till, engine, suspended>>
    /\ IF cpc' = "lt_mute" THEN UNCHANGED locals ELSE TickLocalsGone
    /\ UNCHANGED <<queue, mutes, rpc, keys_left, pendingq, dropped,
                   drift_ticks, invocation, pattern_mode, loop_pattern,
                   loop_order, paused, queued_order, queued_row,
                   has_queued_jump, loop_till_row, pending_pattern_mode_order>>

\* After the loop-till-row snap: reapply_mutes; prev_row = cur_row.
LoopTillMutes ==
    /\ cpc = "lt_mute"
    /\ chan_vol' = reapply_mutes
    /\ prev_row' = t_row
    /\ cpc' = "poll"
    /\ TickLocalsGone
    /\ UNCHANGED <<position, queue, transport, mutes, rpc, keys_left, history>>

\* `else if (has_queued_jump)`: set_position_order_row(queued_order, queued_row).
TickQueuedJump ==
    /\ cpc = "tick"
    /\ drift_ticks' = 0
    /\ ~(pattern_mode # 0 /\ is_looping_till = 0)
    /\ is_looping_till = 0
    /\ has_queued_jump # 0
    /\ set_position_order_row(queued_order, queued_row)
    /\ JumpResetsVolume
    /\ owed' = owed \ {<<queued_order, queued_row>>}
    /\ cpc' = "qj_mute"
    /\ UNCHANGED <<queue, transport, mutes, prev_row, locals, rpc, keys_left,
                   pendingq, dropped, cb_jumps, cb_deferred, cb_enq, cb_qo,
                   suspended>>

\* reapply_mutes; has_queued_jump = 0.
TickQueuedJumpClear ==
    /\ cpc = "qj_mute"
    /\ chan_vol' = reapply_mutes
    /\ has_queued_jump' = 0
    /\ cpc' = "poll"
    /\ UNCHANGED <<position, queue, mutes, prev_row, locals, rpc, keys_left,
                   history, pattern_mode, loop_pattern, loop_order, paused,
                   queued_order, queued_row, loop_till_row, is_looping_till,
                   pending_pattern_mode_order>>

\* No branch of the tick applies; SDL_Delay(10).
TickIdle ==
    /\ cpc = "tick"
    /\ drift_ticks' = 0
    /\ pattern_mode = 0 /\ is_looping_till = 0 /\ has_queued_jump = 0
    /\ cpc' = "poll"
    /\ UNCHANGED <<engine, queue, transport, mutes, prev_row, locals, rpc,
                   keys_left, pendingq, dropped, invocation, suspended>>

Enqueue == EnqueueCommand \/ EnqueuePublish

Tick ==
    \/ TickPattern \/ PatternReadRow \/ PatternWrap \/ PatternSwitchMutes
    \/ PatternSnapMutes \/ PatternDrift \/ PatternDriftMutes
    \/ TickLoopTill \/ LoopTillTickRow \/ LoopTillAct \/ LoopTillMutes
    \/ TickQueuedJump \/ TickQueuedJumpClear \/ TickIdle

\* ------------------------------------------------------- specifications
\* The transport experiment: every transport key, a few key presses.
Init == InitState /\ keys_left = TransportKeys

Next ==
    \/ Render
    \/ KeyNone \/ KeySpace \/ KeyRetrigger \/ RetriggerJump \/ RetriggerMutes
    \/ KeyNext \/ KeyPrev \/ KeyLoopTill \/ LoopTillKeyRow
    \/ KeyToggleMode \/ ToggleReadOrder \/ ToggleReadPattern
    \/ Enqueue \/ Tick

Spec == Init /\ [][Next]_vars

\* The queue experiment: two keys that enqueue (p, j), enough presses to
\* fill the queue and to have a command dropped. Playback stays paused.
InitQueue == InitState /\ keys_left = QueueKeys

NextQueue ==
    \/ CallbackStart \/ DrainDone \/ ApplyQueueOrder \/ ApplyLoopTillOrder
    \/ ApplyLoopTillFields \/ ApplyLoopTillFlag \/ ApplyLoopTillJump
    \/ AdvanceHead \/ CallbackJump
    \/ ReapplyRead \/ ReapplyCall \/ CallbackJumpClear \/ CallbackSilence
    \/ KeyNone \/ KeyPrev \/ KeyLoopTill \/ LoopTillKeyRow
    \/ EnqueueCommand \/ EnqueuePublish
    \/ TickLoopTill \/ LoopTillTickRow \/ LoopTillAct
    \/ TickQueuedJump \/ TickQueuedJumpClear \/ TickIdle

SpecQueue == InitQueue /\ [][NextQueue]_vars

\* The pattern-loop experiment: pause, mode toggle and the next-order key.
InitPattern == InitState /\ keys_left = PatternKeys

\* Song and pattern mode with both order keys: space, 's', 'n' and 'p'.
InitOrders == InitState /\ keys_left = OrderKeys

NextOrders ==
    \/ CallbackStart \/ DrainDone \/ ApplyQueueOrder \/ AdvanceHead
    \/ CallbackJump
    \/ ReapplyRead \/ ReapplyCall \/ CallbackJumpClear \/ CallbackSilence
    \/ CallbackPlaying \/ CallbackDecode
    \/ KeyNone \/ KeySpace \/ KeyNext \/ KeyPrev
    \/ KeyToggleMode \/ ToggleReadOrder \/ ToggleReadPattern
    \/ EnqueueCommand \/ EnqueuePublish
    \/ TickPattern \/ PatternReadRow \/ PatternWrap \/ PatternSwitchMutes
    \/ PatternSnapMutes \/ PatternDrift \/ PatternDriftMutes
    \/ TickQueuedJump \/ TickQueuedJumpClear \/ TickIdle

SpecOrders == InitOrders /\ [][NextOrders]_vars

NextPattern ==
    \/ CallbackStart \/ DrainDone \/ ApplyQueueOrder \/ AdvanceHead
    \/ CallbackJump
    \/ ReapplyRead \/ ReapplyCall \/ CallbackJumpClear \/ CallbackSilence
    \/ CallbackPlaying \/ CallbackDecode
    \/ KeyNone \/ KeySpace \/ KeyNext
    \/ KeyToggleMode \/ ToggleReadOrder \/ ToggleReadPattern
    \/ EnqueueCommand \/ EnqueuePublish
    \/ TickPattern \/ PatternReadRow \/ PatternWrap \/ PatternSwitchMutes
    \/ PatternSnapMutes \/ PatternDrift \/ PatternDriftMutes
    \/ TickQueuedJump \/ TickQueuedJumpClear \/ TickIdle

SpecPattern == InitPattern /\ [][NextPattern]_vars

\* The loop-till-row experiment: pause, loop-till-row and mode toggle.
InitLoopTill == InitState /\ keys_left = LoopTillKeys

NextLoopTill ==
    \/ CallbackStart \/ DrainDone \/ ApplyLoopTillOrder
    \/ ApplyLoopTillFields \/ ApplyLoopTillFlag \/ ApplyLoopTillJump
    \/ AdvanceHead \/ CallbackJump \/ CallbackSilence
    \/ CallbackPlaying \/ CallbackDecode
    \/ KeyNone \/ KeySpace \/ KeyLoopTill \/ LoopTillKeyRow
    \/ KeyToggleMode \/ ToggleReadOrder \/ ToggleReadPattern
    \/ EnqueueCommand \/ EnqueuePublish
    \/ TickPattern \/ PatternReadRow \/ PatternWrap \/ PatternSnapMutes
    \/ PatternDrift \/ PatternDriftMutes
    \/ TickLoopTill \/ LoopTillTickRow \/ LoopTillAct \/ LoopTillMutes
    \/ TickIdle

SpecLoopTill == InitLoopTill /\ [][NextLoopTill]_vars

\* The loop-till-row experiment with both threads running on: the steps of
\* audio_callback ...
RenderLoopTill ==
    \/ CallbackStart \/ DrainDone \/ ApplyLoopTillOrder
    \/ ApplyLoopTillFields \/ ApplyLoopTillFlag \/ ApplyLoopTillJump
    \/ AdvanceHead \/ CallbackJump \/ CallbackSilence
    \/ CallbackPlaying \/ CallbackDecode
\* ... and of the control loop, which polls again after SDL_Delay(10).
ControlLoopTill ==
    \/ KeyNone \/ KeySpace \/ KeyLoopTill \/ LoopTillKeyRow
    \/ KeyToggleMode \/ ToggleReadOrder \/ ToggleReadPattern
    \/ EnqueueCommand \/ EnqueuePublish
    \/ TickPattern \/ PatternReadRow \/ PatternWrap \/ PatternSnapMutes
    \/ PatternDrift \/ PatternDriftMutes
    \/ TickLoopTill \/ LoopTillTickRow \/ LoopTillAct \/ LoopTillMutes
    \/ TickIdle
\* A read that moves the position on: playback that is not paused does not
\* stay on one row for ever.
DecodeAdvances == CallbackDecode /\ position' # position

SpecLoopTillFair ==
    /\ InitLoopTill /\ [][NextLoopTill]_vars
    /\ WF_vars(RenderLoopTill) /\ WF_vars(ControlLoopTill)
    /\ SF_vars(DecodeAdvances)

\* The song-mode experiment: pause and the next / previous order keys.
InitSong == InitState /\ keys_left = SongKeys

NextSong ==
    \/ CallbackStart \/ DrainDone \/ ApplyQueueOrder \/ AdvanceHead
    \/ CallbackJump
    \/ ReapplyRead \/ ReapplyCall \/ CallbackJumpClear \/ CallbackSilence
    \/ CallbackPlaying \/ CallbackDecode
    \/ KeyNone \/ KeySpace \/ KeyNext \/ KeyPrev
    \/ EnqueueCommand \/ EnqueuePublish
    \/ TickQueuedJump \/ TickQueuedJumpClear \/ TickIdle

SpecSong == InitSong /\ [][NextSong]_vars

\* The mute experiment: pause, retrigger and the digit keys.
InitMute == InitState /\ keys_left = MuteKeys

NextMute ==
    \/ CallbackStart \/ DrainDone \/ CallbackJump \/ CallbackSilence
    \/ CallbackPlaying \/ CallbackDecode
    \/ KeyNone \/ KeySpace \/ KeyRetrigger \/ RetriggerJump
    \/ RetriggerMutes \/ KeyDigit \/ DigitToggle \/ DigitVolume
    \/ TickIdle

SpecMute == InitMute /\ [][NextMute]_vars

\* The digit keys against the callback's queued jump: 'n' and the digits,
\* paused throughout.
InitMuteJump == InitState /\ keys_left = MuteJumpKeys

NextMuteJump ==
    \/ CallbackStart \/ DrainDone \/ ApplyQueueOrder \/ AdvanceHead
    \/ CallbackJump \/ ReapplyRead \/ ReapplyCall \/ CallbackJumpClear
    \/ CallbackSilence
    \/ KeyNone \/ KeyNext \/ KeyDigit \/ DigitToggle \/ DigitVolume
    \/ EnqueueCommand \/ EnqueuePublish
    \/ TickQueuedJump \/ TickQueuedJumpClear \/ TickIdle

SpecMuteJump == InitMuteJump /\ [][NextMuteJump]_vars

\* --------------------------------- enqueue_command's stores, unordered
\* command_queue, command_queue_head and command_queue_tail are plain
\* (non-atomic, non-volatile) objects that main writes and the callback
\* reads with no lock or fence between them: the writes race with the
\* reads, and nothing makes the three stores to the slot visible to the
\* callback before the store to command_queue_tail.  The two actions below
\* are enqueue_command with its stores becoming visible in the other
\* order: command_queue_tail = next_tail first ...
PrevTail(t) == (t + MAX_COMMANDS - 1) % MAX_COMMANDS
EnqueuePublishEarly ==
    /\ cpc = "enq"
    /\ ~QueueFull(command_queue_head, command_queue_tail)
    /\ command_queue_tail' = NextTail(command_queue_tail)
    /\ pendingq' = Append(pendingq, e_cmd)
    /\ cb_enq' = IF Drained THEN 1 ELSE cb_enq
    /\ cpc' = "enq_slot"
    /\ UNCHANGED <<engine, command_queue, command_queue_head, transport,
                   mutes, prev_row, k_order, e_cmd, t_order, t_row, t_rows,
                   rpc, keys_left, dropped, drift_ticks, cb_jumps,
                   cb_deferred, cb_qo, owed, suspended>>

\* ... and the slot's type, order and row after it.
EnqueueSlotLate ==
    /\ cpc = "enq_slot"
    /\ command_queue' =
           [command_queue EXCEPT ![PrevTail(command_queue_tail)] = e_cmd]
    /\ e_cmd' = NoCommand
    /\ cpc' = "tick"
    /\ UNCHANGED <<engine, command_queue_head, command_queue_tail, transport,
                   mutes, prev_row, k_order, t_order, t_row, t_rows, rpc,
                   keys_left, history>>

\* process_commands, `default: break`: a slot whose type is neither
\* command is skipped.
ApplyNone ==
    /\ rpc = "drain"
    /\ command_queue_head # command_queue_tail
    /\ cmd.type \notin {PLAYBACK_QUEUE_ORDER, PLAYBACK_LOOP_TILL_ROW}
    /\ rpc' = "adv"
    /\ UNCHANGED <<engine, queue, transport, mutes, prev_row, cpc, locals,
                   keys_left, history>>

InitStoreOrder == InitState /\ keys_left = StoreOrderKeys

NextStoreOrder ==
    \/ NextQueue
    \/ EnqueuePublishEarly \/ EnqueueSlotLate \/ ApplyNone

SpecStoreOrder == InitStoreOrder /\ [][NextStoreOrder]_vars

\* The drain experiment: the queue experiment with fewer key presses, and
\* the audio thread running process_commands on once it has entered it.
InitDrain == InitState /\ keys_left = DrainKeys

ProcessCommands ==
    \/ DrainDone \/ ApplyQueueOrder \/ ApplyLoopTillOrder
    \/ ApplyLoopTillFields \/ ApplyLoopTillFlag \/ ApplyLoopTillJump
    \/ AdvanceHead

SpecDrain == InitDrain /\ [][NextQueue]_vars /\ WF_vars(ProcessCommands)

\* ------------------------------------------------------------ the queue
\* The slots from head up to tail, oldest first.
Occupancy == (command_queue_tail - command_queue_head + MAX_COMMANDS) % MAX_COMMANDS
RingContents ==
    [i \in 1 .. Occupancy |->
        command_queue[(command_queue_head + i - 1) % MAX_COMMANDS]]
\* The callback is applying the command at the head (not yet dequeued).
Applying == rpc \in {"ltr_fields", "ltr_flag", "ltr_set", "adv"}

\* C1: commands are applied in the order they were accepted: the ring from
\* head to tail holds the accepted commands not yet dequeued, oldest first,
\* and the command the callback applies is the oldest of them.
C1_Fifo ==
    /\ RingContents = pendingq
    /\ Applying => (pendingq # <<>> /\ cmd = Head(pendingq))
    /\ (rpc = "drain" /\ command_queue_head # command_queue_tail)
          => cmd = Head(pendingq)

\* Several different commands are pending and the callback is applying the
\* oldest, after the indices went round the ring.
C1_Witness ==
    /\ rpc = "adv"
    /\ Len(pendingq) >= 3
    /\ pendingq[1] # pendingq[2]
    /\ command_queue_tail < command_queue_head

\* C2: enqueue_command on a full queue changes nothing: the slots, head, tail
\* and the occupancy stay, and neither the transport state nor the engine
\* position is touched.
C2_FullEnqueueNoOp ==
    [][(cpc = "enq" /\ cpc' # cpc
          /\ QueueFull(command_queue_head, command_queue_tail))
         => (/\ UNCHANGED <<command_queue, command_queue_head,
                            command_queue_tail, transport, position>>
             /\ Occupancy' = Occupancy
             /\ pendingq' = pendingq)]_vars

\* A command was dropped and the full queue is still there.
C2_Witness == dropped > 0 /\ Occupancy = MAX_COMMANDS - 1 /\ cpc = "tick"

\* In the queue experiment every key enqueues: the calls of enqueue_command
\* made so far, and whether one is under way.
EnqueueCalls == QueueKeys - keys_left
InEnqueue == IF cpc \in {"j_row", "enq", "enq_tail"} THEN 1 ELSE 0
\* Nothing was dequeued yet: every call is pending, dropped or under way.
NoDrainYet == Len(pendingq) + dropped + InEnqueue = EnqueueCalls

\* C3: with no drain in between, the first 8 (MAX_COMMANDS) calls of
\* enqueue_command are all accepted; only a 9th is dropped.
C3_EightAccepted ==
    (NoDrainYet /\ EnqueueCalls <= MAX_COMMANDS) => dropped = 0

\* C4: the indices have one writer each, tail the control loop in
\* enqueue_command and head the callback in process_commands, and a
\* command is pending exactly when head != tail.
C4_SingleWriters ==
    /\ [](pendingq # <<>> <=> command_queue_head # command_queue_tail)
    /\ [][command_queue_tail' # command_queue_tail
            => (cpc = "enq_tail" /\ cpc' # cpc /\ rpc' = rpc)]_vars
    /\ [][command_queue_head' # command_queue_head
            => (rpc = "adv" /\ rpc' # rpc /\ cpc' = cpc)]_vars

\* Both threads are at their index write at once, with commands pending.
C4_Witness ==
    cpc = "enq_tail" /\ rpc = "adv" /\ Len(pendingq) >= 2

\* --------------------------------------------------------- the transport
\* The steps of the tick that read AudioData or the engine position.
TickReads == {"tick", "pt_row", "pt_wrap", "pt_prev", "lt_row", "lt_act"}
\* The callback is inside `case PLAYBACK_LOOP_TILL_ROW`, part of it done.
HalfApplied == rpc \in {"ltr_fields", "ltr_flag", "ltr_set"}

\* C5: the position changes only in steps of the render callback (a jump of
\* process_commands or of the queued jump, or decoding); no step of the
\* control loop moves it.
C5_OnlyRenderJumps ==
    [][(cur_order' # cur_order \/ cur_row' # cur_row)
         => (cpc' = cpc /\ rpc \in {"ltr_set", "cb_jump", "cb_read"})]_vars

\* C6: no step of the tick is taken while a LOOP_TILL_ROW command is half
\* applied.
C6_NoPartialApply ==
    [][(cpc \in TickReads /\ cpc' # cpc) => ~HalfApplied]_vars

\* C7: in pattern mode no two ticks in a row find the order different from
\* loop_order.
C7_NoTwoDriftTicks == drift_ticks < 2

\* C7, amended: a pattern-loop tick that finds the order different from
\* loop_order jumps to (loop_order, 0) in that tick and then forgets the
\* previous row.
C7_DriftSnapsBack ==
    /\ [][(cpc = "pt_prev" /\ cpc' # cpc /\ t_order # loop_order)
            => (/\ cur_order' = loop_order /\ cur_row' = 0
                /\ cpc' = "pt_drift_mute")]_vars
    /\ [][(cpc = "pt_drift_mute" /\ cpc' # cpc) => prev_row' = -1]_vars

\* A tick found the order off the loop and has just snapped back.
C7_Witness ==
    /\ cpc = "pt_drift_mute" /\ pattern_mode = 1 /\ drift_ticks = 1
    /\ cur_order = loop_order /\ cur_row = 0 /\ paused = 0

\* C8: while is_looping_till is set the engine is at loop_order (looked at
\* between callbacks).
C8_Confined ==
    (is_looping_till = 1 /\ rpc = "idle") => cur_order = loop_order

C10_PendingUntilWrap ==
    /\ [][(/\ rpc = "drain" /\ rpc' = "adv"
            /\ cmd.type = PLAYBACK_QUEUE_ORDER /\ pattern_mode # 0)
            => (/\ UNCHANGED <<position, loop_order, loop_pattern,
                               has_queued_jump>>
                /\ pending_pattern_mode_order' = cmd.order)]_vars
    /\ [][(cpc \in {"enq", "enq_tail"} /\ cpc' # cpc)
            => UNCHANGED <<position, loop_order, loop_pattern,
                           pending_pattern_mode_order>>]_vars
    /\ [][(loop_order' # loop_order)
            => \/ cpc = "s_order" /\ cpc' # cpc
               \/ rpc = "drain" /\ rpc' # rpc
                    /\ cmd.type = PLAYBACK_LOOP_TILL_ROW
               \/ /\ cpc = "pt_wrap" /\ cpc' = "pt_switch_mute"
                  /\ prev_row = get_pattern_num_rows(loop_pattern) - 1
                  /\ t_row = 0
                  /\ loop_order' = pending_pattern_mode_order]_vars

\* The pending order 1 has just become the loop order, at a wrap.
C10_Witness ==
    /\ cpc = "pt_switch_mute" /\ pattern_mode = 1
    /\ loop_order = 1 /\ pending_pattern_mode_order = 1
    /\ cur_order = 1 /\ cur_row = 0

\* ---------------------------------------------------- the render callback
\* C11: an invocation of the callback makes at most one set_position call.
C11_OneJumpPerInvocation == cb_jumps + cb_deferred <= 1

\* C11, amended: an invocation makes at most one deferred jump, the one of
\* has_queued_jump after process_commands, to (queued_order, queued_row);
\* every other jump of the callback is made inside process_commands by a
\* LOOP_TILL_ROW command, to row 0 of its order.
C11_OneDeferredJump ==
    /\ [](cb_deferred <= 1)
    /\ [][cb_deferred' > cb_deferred
            => (/\ rpc = "cb_jump" /\ has_queued_jump # 0
                /\ cur_order' = queued_order /\ cur_row' = queued_row)]_vars
    /\ [][cb_jumps' > cb_jumps
            => (/\ rpc = "ltr_set" /\ cmd.type = PLAYBACK_LOOP_TILL_ROW
                /\ cur_order' = cmd.order /\ cur_row' = 0)]_vars
    /\ [][(rpc' # rpc /\ rpc # "cb_read"
             /\ (cur_order' # cur_order \/ cur_row' # cur_row))
            => (cb_jumps' > cb_jumps \/ cb_deferred' > cb_deferred
                \/ cb_jumps = 2)]_vars

\* Two LOOP_TILL_ROW jumps and the deferred jump in one invocation.
C11_Witness ==
    rpc = "cb_render" /\ cb_jumps = 2 /\ cb_deferred = 1 /\ cb_qo >= 1

\* C12: process_commands returns with no accepted command left in the
\* queue, every command it dequeues is the oldest one and has been applied,
\* the queue is still empty in the rest of the invocation unless a command
\* was enqueued after the return, and process_commands, once entered,
\* returns.
C12_DrainsWholeQueue ==
    /\ [][(rpc = "drain" /\ rpc' = "cb_jump")
            => (/\ pendingq = <<>>
                /\ command_queue_head = command_queue_tail
                /\ UNCHANGED <<queue, pendingq>>)]_vars
    /\ [][(pendingq # <<>> /\ pendingq' = Tail(pendingq))
            => (rpc = "adv" /\ cmd = Head(pendingq))]_vars
    /\ []((Drained /\ cb_enq = 0)
            => (pendingq = <<>>
                /\ command_queue_head = command_queue_tail))
    /\ ((rpc = "drain") ~> (rpc = "cb_jump"))

\* process_commands has returned after applying four commands, the queue
\* is empty.
C12_Witness ==
    /\ rpc = "cb_jump" /\ cb_jumps = 2 /\ cb_qo = 2 /\ cb_enq = 0
    /\ pendingq = <<>> /\ command_queue_head = command_queue_tail
    /\ keys_left = 0

\* ------------------------------------------------- the transport states
\* The transport state the flags denote, as the tick tests them.
PatternLoopActive == pattern_mode # 0 /\ is_looping_till = 0
LoopTillRowActive == is_looping_till # 0
SongActive == pattern_mode = 0 /\ is_looping_till = 0
ActiveStates ==
    {st \in {"Song", "PatternLoop", "LoopTillRow"} :
        \/ st = "Song" /\ SongActive
        \/ st = "PatternLoop" /\ PatternLoopActive
        \/ st = "LoopTillRow" /\ LoopTillRowActive}
\* The steps of the tick that belong to each state's logic.
PatternSteps ==
    {"pt_row", "pt_wrap", "pt_switch_mute", "pt_snap_mute", "pt_prev",
     "pt_drift_mute"}
LoopTillSteps == {"lt_row", "lt_act", "lt_mute"}
SongSteps == {"qj_mute"}

\* C13: the flags are 0 or 1 and denote exactly one transport state; a tick
\* enters the logic of the state they denote and stays in that logic until
\* it ends.
C13_OneTransportState ==
    /\ [](pattern_mode \in {0, 1} /\ is_looping_till \in {0, 1})
    /\ [](Cardinality(ActiveStates) = 1)
    /\ [][(cpc = "tick" /\ cpc' # cpc)
            => (/\ PatternLoopActive <=> cpc' \in PatternSteps
                /\ LoopTillRowActive <=> cpc' \in LoopTillSteps
                /\ SongActive <=> cpc' \in SongSteps \cup {"poll"})]_vars
    /\ [][(cpc \in PatternSteps /\ cpc' # cpc)
            => cpc' \in PatternSteps \cup {"poll"}]_vars
    /\ [][(cpc \in LoopTillSteps /\ cpc' # cpc)
            => cpc' \in LoopTillSteps \cup {"poll"}]_vars
    /\ [][(cpc \in SongSteps /\ cpc' # cpc) => cpc' = "poll"]_vars

\* Both flags are set and the tick has entered the loop-till-row logic.
C13_Witness ==
    cpc = "lt_row" /\ pattern_mode = 1 /\ is_looping_till = 1

\* C14: while a loop is active (pattern mode or loop-till-row), and neither
\* the mode toggle nor a LOOP_TILL_ROW command is half done, loop_pattern is
\* the pattern the order table gives for loop_order.
C14_LoopPatternBound ==
    (/\ pattern_mode # 0 \/ is_looping_till # 0
     /\ cpc \notin {"s_order", "s_pattern"}
     /\ rpc # "ltr_fields")
        => loop_pattern = get_order_pattern(loop_order)

\* ------------------------------------------------------------ the mutes
\* The control loop has jumped and has not yet called reapply_mutes.
AwaitingReapply ==
    {"r_mute", "pt_switch_mute", "pt_snap_mute", "pt_drift_mute", "lt_mute",
     "qj_mute"}

\* C15: the callback decodes no audio between a set_position call and the
\* reapply_mutes that follows it.
C15_NoDecodeBeforeReapply ==
    [][(rpc = "cb_read" /\ rpc' = "idle")
         => cpc \notin AwaitingReapply]_vars

\* ------------------------------------------------- the song-mode jump
\* C16: an invocation of the callback that took up one QUEUE_ORDER command in
\* song mode ends with the position set to the command's target and with
\* has_queued_jump false.
C16_AppliedByNextInvocation ==
    [][(rpc \in {"cb_render", "cb_read"} /\ rpc' = "idle" /\ cb_qo = 1)
         => (owed = {} /\ has_queued_jump = 0)]_vars

\* --------------------------------------------- leaving loop-till-row
\* C17: the step that leaves loop-till-row at the stop row sets no position,
\* and the mode found when the loop was engaged is in effect again:
\* pattern_mode as it was and, in pattern mode, the loop target as it was.
C17_ResumesSuspendedMode ==
    [][(is_looping_till = 1 /\ is_looping_till' = 0
          /\ suspended # NotSuspended)
         => /\ UNCHANGED position
            /\ pattern_mode' = suspended.mode
            /\ suspended.mode = 1
                  => /\ loop_order' = suspended.order
                     /\ loop_pattern' = suspended.pattern]_vars

\* ---------------------------------------------------- order indices
\* The order index of every command in the ring and of the one being enqueued.
CommandOrders ==
    {command_queue[i].order : i \in DOMAIN command_queue} \cup {e_cmd.order}

\* Everything the 'n' key at the last order must leave alone.
NextOrderFrame ==
    <<engine, queue, transport, mutes, prev_row, locals, rpc, history>>

\* C18: the order of every command, loop_order and queued_order lie in
\* [0, num_orders), and so does the pending order when set; 'n' at the last
\* order enqueues nothing and changes no state; 'p' at order 0 enqueues
\* order 0.
C18_OrdersInRange ==
    /\ [](/\ CommandOrders \subseteq Orders
          /\ {loop_order, queued_order} \subseteq Orders
          /\ pending_pattern_mode_order \in Orders \cup {-1})
    /\ [][(KeyNext /\ cur_order = num_orders - 1)
            => (UNCHANGED NextOrderFrame /\ cpc' = "tick")]_vars
    /\ [][(KeyPrev /\ cur_order = 0)
            => (/\ e_cmd' = Command(PLAYBACK_QUEUE_ORDER, 0, 0)
                /\ cpc' = "enq")]_vars

\* Song mode, paused, at the last order after 'n', 'n', 'n': the first two
\* commands were drained and applied, the third key enqueued nothing.
C18_Witness ==
    /\ cur_order = num_orders - 1 /\ cpc = "tick" /\ keys_left = 0
    /\ paused = 1 /\ pattern_mode = 0 /\ has_queued_jump = 0
    /\ command_queue_head = command_queue_tail
    /\ command_queue[0] = Command(PLAYBACK_QUEUE_ORDER, 1, 0)
    /\ command_queue[1] = Command(PLAYBACK_QUEUE_ORDER, num_orders - 1, 0)
    /\ command_queue[2] = NoCommand

\* ------------------------------------------------------------ the pause
\* The order of the callback's steps: process_commands, the queued jump, the
\* pause check, the read.
CallbackOrder ==
    {<<"idle", "drain">>, <<"drain", "adv">>, <<"drain", "ltr_fields">>,
     <<"ltr_fields", "ltr_flag">>, <<"ltr_flag", "ltr_set">>,
     <<"ltr_set", "adv">>, <<"adv", "drain">>, <<"drain", "cb_jump">>,
     <<"cb_jump", "cb_clear">>, <<"cb_jump", "cb_render">>,
     <<"cb_clear", "cb_setvol">>, <<"cb_setvol", "cb_clear">>,
     <<"cb_clear", "cb_render">>, <<"cb_render", "idle">>,
     <<"cb_render", "cb_read">>, <<"cb_read", "idle">>}

\* A step that calls set_position_order_row, in either thread.
JumpStep ==
    \/ rpc = "cb_jump" /\ rpc' = "cb_clear"
    \/ rpc = "ltr_set" /\ rpc' = "adv"
    \/ cpc' # cpc /\ cpc' \in AwaitingReapply

\* An invocation whose pause check finds paused set returns silence without
\* reading the engine; the read is reached only past a pause check that
\* found paused clear; the callback's steps keep their order.
PauseCheckThenRead ==
    /\ [][(rpc = "cb_render" /\ paused # 0 /\ rpc' # rpc)
            => (rpc' = "idle" /\ UNCHANGED engine)]_vars
    /\ [][(rpc' = "cb_read" /\ rpc # "cb_read")
            => (rpc = "cb_render" /\ paused = 0)]_vars
    /\ [][rpc' # rpc => <<rpc, rpc'>> \in CallbackOrder]_vars

\* C19: a callback invocation that runs while paused outputs silence and
\* does not read the engine; while paused is set the position changes only
\* in jump steps; the callback's steps run in the order drain, queued jump,
\* pause check, read.
C19_NoAdvanceWhilePaused ==
    /\ PauseCheckThenRead
    /\ [][(paused # 0 /\ position' # position) => JumpStep]_vars

\* C19, amended: as C19, but while paused is set the position also changes
\* once more in the read of an invocation that passed its pause check before
\* the pause key was handled.
C19_NoAdvancePastPauseCheck ==
    /\ PauseCheckThenRead
    /\ [][(paused # 0 /\ position' # position)
            => (JumpStep \/ (rpc = "cb_read" /\ rpc' = "idle"))]_vars

\* Paused with all keys used; the invocation has made the queued jump and
\* stands at its pause check.
C19_Witness ==
    /\ paused # 0 /\ rpc = "cb_render" /\ cb_deferred = 1
    /\ keys_left = 0 /\ cur_order = 1

\* ------------------------------------------------------ the digit keys
\* C20: a digit key whose channel index is >= num_channels changes no entry
\* of the mute vector and makes no set_channel_volume call; the mute vector
\* and the channel volumes are only ever indexed inside [0, num_channels).
C20_OutOfRangeDigitIgnored ==
    /\ [](/\ DOMAIN mute_states = Channels
          /\ DOMAIN chan_vol = Channels
          /\ cpc = "d_vol" => k_ch \in Channels)
    /\ [][(cpc = "d_check" /\ k_ch >= num_channels /\ cpc' # cpc)
            => (UNCHANGED <<mute_states, chan_vol>> /\ cpc' = "tick")]_vars
    /\ [][mute_states' # mute_states
            => (/\ cpc = "d_check" /\ k_ch \in Channels
                /\ \A c \in Channels \ {k_ch} :
                      mute_states'[c] = mute_states[c])]_vars

\* Channel 1 is muted and the handler of a digit beyond the last channel is
\* at its `ch < num_channels` test.
C20_Witness ==
    /\ cpc = "d_check" /\ k_ch >= num_channels
    /\ mute_states[0] # 0 /\ chan_vol[0] = 0

\* --------------------------------------------------- reapply_mutes
\* C21: reapply_mutes leaves volume 0 on every muted channel and 1 on every
\* other one, a second call right after it changes nothing, and no call
\* changes mute_states.
C21_ReapplyIdempotent ==
    /\ [](LET once == ReapplyLoop(0, mute_states, chan_vol)
          IN  /\ once = [ch \in Channels |-> MutedVolume(mute_states[ch])]
              /\ ReapplyLoop(0, mute_states, once) = once)
    /\ [][(cpc \in AwaitingReapply /\ cpc' # cpc)
            => (/\ chan_vol' = ReapplyLoop(0, mute_states, chan_vol)
                /\ ReapplyLoop(0, mute_states', chan_vol') = chan_vol'
                /\ UNCHANGED mute_states)]_vars
    /\ [][rpc' # rpc => UNCHANGED mute_states]_vars

\* Channel 1 is muted, the retrigger's jump has reset the volumes, and
\* reapply_mutes is about to run.
C21_Witness ==
    cpc = "r_mute" /\ mute_states[0] # 0 /\ chan_vol[0] = 1

\* ------------------------------------------------------ the mode toggle
\* What no step of the mode toggle may touch: the position, the command
\* queue and the mute vector.
ToggleFrame == <<position, queue, mute_states>>

\* C22: the toggle into pattern mode ends with loop_order the engine's
\* current order, loop_pattern the pattern of that order and the pending
\* order cleared; the toggle into song mode changes the mode flag only; no
\* step of either sets the position or touches the command queue or the
\* mute vector.
C22_ToggleRecordsTarget ==
    /\ [][KeyToggleMode
            => UNCHANGED <<ToggleFrame, loop_order, loop_pattern, paused,
                           queued_order, queued_row, has_queued_jump,
                           loop_till_row, is_looping_till,
                           pending_pattern_mode_order>>]_vars
    /\ [][(cpc \in {"s_order", "s_pattern"} /\ cpc' # cpc)
            => UNCHANGED <<ToggleFrame, pattern_mode>>]_vars
    /\ [][(cpc = "s_pattern" /\ cpc' = "tick")
            => (/\ loop_order' = cur_order
                /\ loop_pattern' = get_order_pattern(loop_order')
                /\ pending_pattern_mode_order' = -1)]_vars

\* ------------------------------------------------- the pattern-mode wrap
\* The pattern-mode tick is at its wrap test and has seen the wrap.
AtPatternWrap ==
    cpc = "pt_wrap" /\ prev_row = t_rows - 1 /\ t_row = 0

\* The volumes reapply_mutes leaves.
MutedVolumes == [ch \in Channels |-> MutedVolume(mute_states[ch])]

\* C23: a pattern-mode tick that detects the wrap with a pending order other
\* than loop_order makes it the loop order, re-derives loop_pattern, jumps
\* to (pending order, 0), reapplies the mutes and clears the pending order;
\* with no such pending order it only jumps to (loop_order, 0) and
\* reapplies the mutes.
C23_WrapSwitchesOrSnaps ==
    /\ [][(AtPatternWrap /\ cpc' # cpc)
            => IF /\ pending_pattern_mode_order # -1
                  /\ pending_pattern_mode_order # loop_order
               THEN /\ loop_order' = pending_pattern_mode_order
                    /\ loop_pattern' = OrderTable[loop_order' + 1]
                    /\ position' = <<pending_pattern_mode_order, 0>>
                    /\ cpc' = "pt_switch_mute"
                    /\ UNCHANGED <<queue, mute_states, pattern_mode,
                                   pending_pattern_mode_order>>
               ELSE /\ position' = <<loop_order, 0>>
                    /\ cpc' = "pt_snap_mute"
                    /\ UNCHANGED <<queue, mute_states, transport>>]_vars
    /\ [][(cpc = "pt_switch_mute" /\ cpc' # cpc)
            => (/\ chan_vol' = MutedVolumes
                /\ pending_pattern_mode_order' = -1
                /\ UNCHANGED <<position, queue, mute_states, pattern_mode,
                               loop_order, loop_pattern>>)]_vars
    /\ [][(cpc = "pt_snap_mute" /\ cpc' # cpc)
            => (/\ chan_vol' = MutedVolumes
                /\ UNCHANGED <<position, queue, mute_states,
                               transport>>)]_vars
    /\ [][(cpc = "pt_wrap" /\ ~AtPatternWrap /\ cpc' # cpc)
            => UNCHANGED <<engine, queue, mute_states, transport>>]_vars

\* The tick has switched the loop to the pending order 1 and jumped to its
\* row 0; the mutes come next.
C23_Witness ==
    /\ cpc = "pt_switch_mute" /\ pending_pattern_mode_order = 1
    /\ loop_order = 1 /\ loop_pattern = OrderTable[2]
    /\ cur_order = 1 /\ cur_row = 0

\* ------------------------------------------- drift under loop-till-row
\* C24: a loop-till-row tick that finds the order it read different from
\* loop_order sets prev_row to -1 and does nothing else: no jump, no
\* reapply_mutes, is_looping_till, loop_order and loop_till_row as they were;
\* the reads before it change nothing either.
C24_DriftOnlyResetsTracker ==
    /\ [][(cpc = "lt_act" /\ t_order # loop_order /\ cpc' # cpc)
            => (/\ prev_row' = -1
                /\ cpc' = "poll"
                /\ UNCHANGED <<engine, queue, transport, mute_states>>)]_vars
    /\ [][((cpc = "lt_row" \/ (cpc = "tick" /\ is_looping_till # 0))
             /\ cpc' # cpc)
            => UNCHANGED <<engine, queue, transport, mute_states,
                           prev_row>>]_vars

\* Loop-till-row is on, the tick has read an order other than loop_order
\* and is at its order test with a known previous row.
C24_Witness ==
    /\ cpc = "lt_act" /\ is_looping_till = 1
    /\ t_order # loop_order /\ prev_row # -1

\* --------------------------------------------- the loop-till-row wrap
\* C25: a loop-till-row tick that saw the last row of loop_pattern at its
\* previous reading and now reads row 0 of another order (playback has run
\* off the end of the pattern before the stop row was seen) jumps back to
\* (loop_order, 0).
C25_SnapsBackAtPatternEnd ==
    [][(/\ cpc = "lt_act" /\ is_looping_till = 1
        /\ prev_row = t_rows - 1 /\ t_row = 0 /\ t_order # loop_order
        /\ cpc' # cpc)
         => position' = <<loop_order, 0>>]_vars

\* ------------------------------------------- several QUEUE_ORDER commands
\* The callback has made the queued jump and not yet cleared the flag.
CallbackJumped == rpc \in {"cb_clear", "cb_setvol"}

\* C26: an invocation of the callback that drained two QUEUE_ORDER commands
\* in song mode ends with a jump to the target of the last one made, and
\* exactly one jump is made for them: the callback and the control loop do
\* not both jump.
C26_LastQueueOrderWins ==
    /\ [][(rpc \in {"cb_render", "cb_read"} /\ rpc' = "idle" /\ cb_qo = 2)
            => (/\ cb_deferred <= 1
                /\ <<queued_order, queued_row>> \notin owed)]_vars
    /\ [][(cb_qo = 2 /\ rpc = "cb_jump" /\ rpc' = "cb_clear")
            => cpc # "qj_mute"]_vars
    /\ [][(cb_qo = 2 /\ cpc = "tick" /\ cpc' = "qj_mute")
            => ~CallbackJumped]_vars

\* ------------------------------------------ the mode at the dequeue
\* process_commands is at a QUEUE_ORDER command.
AtQueueOrder ==
    /\ rpc = "drain" /\ command_queue_head # command_queue_tail
    /\ cmd.type = PLAYBACK_QUEUE_ORDER

\* C27: what a QUEUE_ORDER command does is decided by pattern_mode as it is
\* when process_commands takes the command up: in pattern mode it becomes
\* the pending order and requests no jump, in song mode it becomes the
\* queued jump and leaves the pending order alone.
C27_ModeAtDequeueDecides ==
    [][(AtQueueOrder /\ rpc' # rpc)
         => IF pattern_mode # 0
            THEN /\ pending_pattern_mode_order' = cmd.order
                 /\ UNCHANGED <<queued_order, queued_row, has_queued_jump>>
            ELSE /\ queued_order' = cmd.order /\ queued_row' = cmd.row
                 /\ has_queued_jump' = 1
                 /\ UNCHANGED pending_pattern_mode_order]_vars

\* A QUEUE_ORDER command enqueued in song mode is about to be taken up in
\* pattern mode: the 's' handler, started after the enqueue, has flipped
\* the mode.
C27_Witness ==
    AtQueueOrder /\ cpc = "s_order" /\ pattern_mode = 1

\* ------------------------------------------------ the queued jump, once
\* The control loop has made the queued jump and not yet cleared the flag.
TickJumped == cpc = "qj_mute"

\* C28: for one setting of has_queued_jump the jump to (queued_order,
\* queued_row) is made once: neither thread makes it while the other has
\* made it and has not yet cleared the flag, and the flag is cleared only
\* by a thread that has made the jump for it.
C28_QueuedJumpOnce ==
    /\ [][(rpc = "cb_jump" /\ rpc' = "cb_clear") => ~TickJumped]_vars
    /\ [][(cpc = "tick" /\ cpc' = "qj_mute") => ~CallbackJumped]_vars
    /\ [][(has_queued_jump = 1 /\ has_queued_jump' = 0)
            => <<queued_order, queued_row>> \notin owed]_vars

\* ------------------------------------------- volumes against the mutes
\* Neither thread is inside a mute operation: the control loop is not in a
\* digit handler nor between a jump and the end of its reapply_mutes, the
\* callback is not between its jump and the end of its reapply_mutes.
MuteQuiet ==
    /\ cpc \notin {"d_check", "d_vol"} \cup AwaitingReapply
    /\ ~CallbackJumped

\* C29: whenever neither thread is inside a mute operation, every channel's
\* engine volume is the one its mute_states entry asks for.
C29_VolumesMatchMutes ==
    MuteQuiet => chan_vol = MutedVolumes

\* ---------------------------------------- the queue under both threads
\* The indices of the slots from head up to tail.
PendingSlots ==
    {(command_queue_head + i) % MAX_COMMANDS : i \in 0 .. (Occupancy - 1)}
\* The callback takes up the slot at the head.
TakesUp == rpc = "drain" /\ rpc' \in {"adv", "ltr_fields"}

C31_LoopTillExits ==
    (is_looping_till # 0 /\ paused = 0)
        ~> (is_looping_till = 0 \/ paused # 0)

====
